---- MODULE Spec2Model ----
(***************************************************************************)
(* A model of life.py: the Stepper (a periodic scheduler built on          *)
(* threading.Timer and two locks) and the World (Conway's Game of Life on  *)
(* a torus).                                                               *)
(*                                                                         *)
(* Stepper: every thread step is one access to a field that another        *)
(* thread may access at the same time (running, _interval, _timer, a       *)
(* Timer's state, the two locks).  Accesses that only the holder of the    *)
(* control lock performs are merged into the step that takes the lock.     *)
(* Time is not measured: a started Timer may fire at any later moment,     *)
(* and each Timer keeps the delay it was created with.  Intervals are      *)
(* written in tenths of a second.                                          *)
(*                                                                         *)
(* World: a call is one step, but for step() next to a reader on another   *)
(* thread (RaceSpec), where its two assignments to self are two steps.     *)
(*                                                                         *)
(* Specifications: Spec (Stepper), LiveSpec (Stepper, fair, callback never *)
(* raises), RetuneSpec (Stepper, intervals of any sign), WorldSpec         *)
(* (World), EdgeSpec (flip_cell outside the grid), GliderSpec (constructor *)
(* and step on larger worlds), NeighborSpec (step's neighbour list),       *)
(* RaceSpec (step and _paint_world on two threads).                        *)
(***************************************************************************)
EXTENDS Integers, Sequences, FiniteSets, TLC

\* ---------------------------------------------------------------- bounds
MaxTimers == 3      \* Timer objects created in one behaviour
MaxOps == 3         \* start/stop/set_interval calls in one behaviour

\* ------------------------------------------------------------- constants
Threshold == 5      \* set_interval's "> 0.5", in tenths of a second
DefaultInterval == 10   \* Stepper.__init__'s interval=1

Callers == {-1, -2}                 \* threads that call the public methods
TimerIds == 1..MaxTimers            \* a Timer and the thread it runs on
Threads == Callers \cup TimerIds
Intervals == {Threshold, DefaultInterval}   \* arguments of set_interval
Zero == 0           \* an interval that is not positive
AnyIntervals == Intervals \cup {Zero}       \* positive or not
NoLock == 0
NoTimer == 0
NoArg == -1

VARIABLES
    running,        \* self.running
    interval,       \* self._interval
    timer,          \* self._timer: NoTimer (None) or a Timer id
    control_lock,   \* self._control_lock: NoLock or the holder
    cb_lock,        \* self._cb_lock: NoLock or the holder
    tstate,         \* each Timer: unused, created, created_cancelled,
                    \*   waiting, cancelled, fired
    tdelay,         \* each Timer's interval argument
    pc,             \* each thread's position
    op,             \* the public method a caller is inside
    arg,            \* set_interval's argument while a caller is inside it
    ival,           \* the value of self._interval a thread has read for Timer()
    ncalls,         \* history: callback invocations begun
    lastres,        \* history: how the latest finished invocation ended
    nops,           \* history: public calls made, in control-lock order
    last2,          \* history: the latest two of them
    fresh_set,      \* history: the argument of the latest responsive
                    \*   set_interval, until the next invocation begins
    lastarg,        \* history: the argument of the latest public call
    called          \* history: the caller's current call has called the
                    \*   callback

svars == <<running, interval, timer, control_lock, cb_lock, tstate, tdelay,
           pc, op, arg, ival, ncalls, lastres, nops, last2, fresh_set,
           lastarg, called>>

\* The World's state.
VARIABLES
    width,          \* self.width
    height,         \* self.height
    cells,          \* self.cells, indexed [y][x]
    cells_changed,  \* self.cells_changed, indexed [y][x]
    wstate,         \* unborn, ok (constructed), failed (__init__ raised)
    wlast,          \* history: the latest call: none, new, step, flip,
                    \*   flip_error (flip_cell raised IndexError)
    prev_cells,     \* history: self.cells before the latest call
    prev_changed,   \* history: self.cells_changed before the latest call
    flipxy,         \* history: the arguments of the latest flip_cell
    gen,            \* history: step calls made
    nflips          \* history: flip_cell calls made

\* A step() in progress on one thread and _paint_world on another.
VARIABLES
    next_cells,     \* step's local next_cells between its two assignments
                    \*   to self; NoGrid when no step is in progress
    paint           \* _paint_world's loop body: its position, the cell it
                    \*   is at, and for each of the two grids it has read
                    \*   the step call that made the grid

\* One evaluation of the list "neighbors" in step's loop body.
VARIABLES
    loop,           \* the width, height, x and y it was evaluated for
    neighbors       \* the list

racevars == <<next_cells, paint>>
loopvars == <<loop, neighbors>>

wvars == <<width, height, cells, cells_changed, wstate, wlast, prev_cells,
           prev_changed, flipxy, gen, nflips, racevars, loopvars>>

vars == <<svars, wvars>>

\* ------------------------------------------------------- Stepper.__init__
StepperInit ==
    /\ running = FALSE
    /\ interval = DefaultInterval
    /\ timer = NoTimer
    /\ control_lock = NoLock
    /\ cb_lock = NoLock
    /\ tstate = [i \in TimerIds |-> "unused"]
    /\ tdelay = [i \in TimerIds |-> NoArg]
    /\ pc = [t \in Threads |-> IF t \in Callers THEN "idle" ELSE "none"]
    /\ op = [c \in Callers |-> "none"]
    /\ arg = [c \in Callers |-> NoArg]
    /\ ival = [t \in Threads |-> NoArg]
    /\ ncalls = 0
    /\ lastres = "none"
    /\ nops = 0
    /\ last2 = <<>>
    /\ fresh_set = NoArg
    /\ lastarg = NoArg
    /\ called = [c \in Callers |-> FALSE]

\* ------------------------------------------------------------ threading
\* Timer.cancel(): sets the Timer's finished event; a Timer that has fired
\* already is not affected.
TimerCancelled(s) ==
    CASE s = "created" -> "created_cancelled"
      [] s = "waiting" -> "cancelled"
      [] OTHER -> s

\* Thread.start() succeeds once only.
CanStartTimerNever(s) == FALSE

CanStartTimer(s) == s \in {"created", "created_cancelled"}

TimerStarted(s) == IF s = "created" THEN "waiting" ELSE "cancelled"

\* A Timer that will call its function unless it is cancelled first.
Pending(i) == tstate[i] = "waiting"

NextTimerId == CHOOSE i \in TimerIds :
                  /\ tstate[i] = "unused"
                  /\ \A j \in TimerIds : j < i => tstate[j] # "unused"

\* The thread leaves the public method (a caller, releasing the control lock
\* as "with self._control_lock" does) or ends (a Timer's thread).
Leave(t) ==
    /\ pc' = [pc EXCEPT ![t] = IF t \in Callers THEN "idle" ELSE "done"]
    /\ control_lock' = IF control_lock = t THEN NoLock ELSE control_lock
    /\ op' = IF t \in Callers THEN [op EXCEPT ![t] = "none"] ELSE op
    /\ arg' = IF t \in Callers THEN [arg EXCEPT ![t] = NoArg] ELSE arg
    /\ ival' = [ival EXCEPT ![t] = NoArg]
    /\ called' = IF t \in Callers THEN [called EXCEPT ![t] = FALSE] ELSE called

\* A public call is recorded when it takes the control lock.
Logged(name, a) ==
    /\ nops < MaxOps
    /\ nops' = nops + 1
    /\ lastarg' = a
    /\ last2' = IF Len(last2) < 2 THEN Append(last2, name)
                ELSE <<last2[2], name>>

\* ------------------------------------------------------------ Stepper.start
\* "if not self.running:"
StartGuardAlways(c) == TRUE

StartGuard(c) == ~running

\* What start() calls once running is set: "self._run()", which calls the
\* callback first (a start that only scheduled would go to _run_again).
StartCallsRunAgain == "again"

StartCalls == "run"

Start(c) ==
    /\ pc[c] = "idle"
    /\ control_lock = NoLock
    /\ Logged("start", NoArg)
    /\ IF StartGuard(c)
       THEN /\ running' = TRUE
            /\ control_lock' = c
            /\ pc' = [pc EXCEPT ![c] = StartCalls]
            /\ op' = [op EXCEPT ![c] = "start"]
       ELSE UNCHANGED <<running, control_lock, pc, op>>
    /\ UNCHANGED <<interval, timer, cb_lock, tstate, tdelay, arg, ival, ncalls,
                   lastres, fresh_set, called>>
    /\ UNCHANGED wvars

\* ------------------------------------------------------------- Stepper.stop
\* stop(): takes the control lock; _stop's "self.running = False".
Stop(c) ==
    /\ pc[c] = "idle"
    /\ control_lock = NoLock
    /\ Logged("stop", NoArg)
    /\ control_lock' = c
    /\ running' = FALSE
    /\ pc' = [pc EXCEPT ![c] = "cancel"]
    /\ op' = [op EXCEPT ![c] = "stop"]
    /\ UNCHANGED <<interval, timer, cb_lock, tstate, tdelay, arg, ival, ncalls,
                   lastres, fresh_set, called>>
    /\ UNCHANGED wvars

\* _stop's "if self._timer: self._timer.cancel()", then stop() returns or
\* set_interval goes on.
CancelTimer(c) ==
    /\ pc[c] = "cancel"
    /\ tstate' = IF timer # NoTimer
                 THEN [tstate EXCEPT ![timer] = TimerCancelled(tstate[timer])]
                 ELSE tstate
    /\ IF op[c] = "stop"
       THEN Leave(c)
       ELSE /\ pc' = [pc EXCEPT ![c] = "set_iv"]
            /\ UNCHANGED <<control_lock, op, arg, ival, called>>
    /\ UNCHANGED <<running, interval, timer, cb_lock, tdelay, ncalls, lastres,
                   fresh_set, nops, last2, lastarg>>
    /\ UNCHANGED wvars

\* ----------------------------------------------------- Stepper.set_interval
\* "if self.running and self._interval > 0.5:"
ResponsiveAtThreshold == running /\ interval >= Threshold

Responsive == running /\ interval > Threshold

\* The value "self._interval = interval" stores in the responsive branch.
StoredIntervalOld(c) == interval

StoredInterval(c) == arg[c]

SetInterval(c, v) ==
    /\ pc[c] = "idle"
    /\ control_lock = NoLock
    /\ Logged("set", v)
    /\ IF Responsive
       THEN /\ control_lock' = c
            /\ running' = FALSE             \* _stop's first statement
            /\ pc' = [pc EXCEPT ![c] = "cancel"]
            /\ op' = [op EXCEPT ![c] = "set"]
            /\ arg' = [arg EXCEPT ![c] = v]
            /\ fresh_set' = v
            /\ UNCHANGED interval
       ELSE /\ interval' = v
            /\ UNCHANGED <<control_lock, running, pc, op, arg, fresh_set>>
    /\ UNCHANGED <<timer, cb_lock, tstate, tdelay, ival, ncalls, lastres,
                   called>>
    /\ UNCHANGED wvars

\* "self._interval = interval" of the responsive branch
SetStored(c) ==
    /\ pc[c] = "set_iv"
    /\ interval' = StoredInterval(c)
    /\ pc' = [pc EXCEPT ![c] = "set_run"]
    /\ UNCHANGED <<running, timer, control_lock, cb_lock, tstate, tdelay, op,
                   arg, ival, ncalls, lastres, fresh_set, nops, last2, lastarg,
                   called>>
    /\ UNCHANGED wvars

\* "self.running = True" of the responsive branch; _run() follows
SetRunning(c) ==
    /\ pc[c] = "set_run"
    /\ running' = TRUE
    /\ pc' = [pc EXCEPT ![c] = "run"]
    /\ UNCHANGED <<interval, timer, control_lock, cb_lock, tstate, tdelay, op,
                   arg, ival, ncalls, lastres, fresh_set, nops, last2, lastarg,
                   called>>
    /\ UNCHANGED wvars

\* ------------------------------------------------------------- Stepper._run
\* "with self._cb_lock:" is entered and the callback is called.
CbLockIgnored(t) == TRUE

CbLockFree(t) == cb_lock = NoLock

RunCallback(t) ==
    /\ pc[t] = "run"
    /\ CbLockFree(t)
    /\ cb_lock' = t
    /\ pc' = [pc EXCEPT ![t] = "in_cb"]
    /\ ncalls' = ncalls + 1
    /\ fresh_set' = NoArg
    /\ called' = IF t \in Callers THEN [called EXCEPT ![t] = TRUE] ELSE called
    /\ UNCHANGED <<running, interval, timer, control_lock, tstate, tdelay, op,
                   arg, ival, lastres, nops, last2, lastarg>>
    /\ UNCHANGED wvars

\* The callback returns: the with block releases the lock, _run_again is next.
CallbackReturns(t) ==
    /\ pc[t] = "in_cb"
    /\ cb_lock' = NoLock
    /\ lastres' = "ok"
    /\ pc' = [pc EXCEPT ![t] = "again"]
    /\ UNCHANGED <<running, interval, timer, control_lock, tstate, tdelay, op,
                   arg, ival, ncalls, fresh_set, nops, last2, lastarg, called>>
    /\ UNCHANGED wvars

\* The callback raises: the with block releases the lock and the exception
\* leaves _run, so _run_again is not called.
CallbackRaises(t) ==
    /\ pc[t] = "in_cb"
    /\ cb_lock' = NoLock
    /\ lastres' = "raised"
    /\ Leave(t)
    /\ UNCHANGED <<running, interval, timer, tstate, tdelay, ncalls, fresh_set,
                   nops, last2, lastarg>>
    /\ UNCHANGED wvars

\* ------------------------------------------------------- Stepper._run_again
\* "if self.running:"
RunAgain(t) ==
    /\ pc[t] = "again"
    /\ IF running
       THEN /\ pc' = [pc EXCEPT ![t] = "rd_iv"]
            /\ UNCHANGED <<control_lock, op, arg, ival, called>>
       ELSE Leave(t)
    /\ UNCHANGED <<running, interval, timer, cb_lock, tstate, tdelay, ncalls,
                   lastres, fresh_set, nops, last2, lastarg>>
    /\ UNCHANGED wvars

\* the read of self._interval in "threading.Timer(self._interval, self._run)"
ReadInterval(t) ==
    /\ pc[t] = "rd_iv"
    /\ ival' = [ival EXCEPT ![t] = interval]
    /\ pc' = [pc EXCEPT ![t] = "mk"]
    /\ UNCHANGED <<running, interval, timer, control_lock, cb_lock, tstate,
                   tdelay, op, arg, ncalls, lastres, fresh_set, nops, last2,
                   lastarg, called>>
    /\ UNCHANGED wvars

\* "self._timer = threading.Timer(...)"
MakeTimer(t) ==
    /\ pc[t] = "mk"
    /\ \E i \in TimerIds : tstate[i] = "unused"
    /\ LET n == NextTimerId IN
         /\ tstate' = [tstate EXCEPT ![n] = "created"]
         /\ tdelay' = [tdelay EXCEPT ![n] = ival[t]]
         /\ timer' = n
    /\ pc' = [pc EXCEPT ![t] = "st"]
    /\ UNCHANGED <<running, interval, control_lock, cb_lock, op, arg, ival,
                   ncalls, lastres, fresh_set, nops, last2, lastarg, called>>
    /\ UNCHANGED wvars

\* "self._timer.start()": starts the Timer self._timer refers to now; a
\* Timer started before raises RuntimeError.  Either way the thread leaves.
StartTimer(t) ==
    /\ pc[t] = "st"
    /\ tstate' = IF CanStartTimer(tstate[timer])
                 THEN [tstate EXCEPT ![timer] = TimerStarted(tstate[timer])]
                 ELSE tstate
    /\ Leave(t)
    /\ UNCHANGED <<running, interval, timer, cb_lock, tdelay, ncalls, lastres,
                   fresh_set, nops, last2, lastarg>>
    /\ UNCHANGED wvars

\* ---------------------------------------------------------- threading.Timer
\* The Timer's wait ends without a cancel: its thread calls self._run.
Fire(i) ==
    /\ Pending(i)
    /\ tstate' = [tstate EXCEPT ![i] = "fired"]
    /\ pc' = [pc EXCEPT ![i] = "run"]
    /\ UNCHANGED <<running, interval, timer, control_lock, cb_lock, tdelay, op,
                   arg, ival, ncalls, lastres, fresh_set, nops, last2, lastarg,
                   called>>
    /\ UNCHANGED wvars

StepperNext ==
    \/ \E c \in Callers : Start(c)
    \/ \E c \in Callers : Stop(c)
    \/ \E c \in Callers : CancelTimer(c)
    \/ \E c \in Callers : \E v \in Intervals : SetInterval(c, v)
    \/ \E c \in Callers : SetStored(c)
    \/ \E c \in Callers : SetRunning(c)
    \/ \E t \in Threads : RunCallback(t)
    \/ \E t \in Threads : CallbackReturns(t)
    \/ \E t \in Threads : CallbackRaises(t)
    \/ \E t \in Threads : RunAgain(t)
    \/ \E t \in Threads : ReadInterval(t)
    \/ \E t \in Threads : MakeTimer(t)
    \/ \E t \in Threads : StartTimer(t)
    \/ \E i \in TimerIds : Fire(i)

\* The steps the program's threads take by themselves, once a public method
\* has been called, with a callback that returns normally.
Progress ==
    \/ \E c \in Callers : CancelTimer(c)
    \/ \E c \in Callers : SetStored(c)
    \/ \E c \in Callers : SetRunning(c)
    \/ \E t \in Threads : RunCallback(t)
    \/ \E t \in Threads : CallbackReturns(t)
    \/ \E t \in Threads : RunAgain(t)
    \/ \E t \in Threads : ReadInterval(t)
    \/ \E t \in Threads : MakeTimer(t)
    \/ \E t \in Threads : StartTimer(t)
    \/ \E i \in TimerIds : Fire(i)

\* The Stepper with a callback that never raises.  The public methods hold
\* the control lock from their first statement to their return, so calls from
\* several threads happen one after another, as calls from one thread do: one
\* thread makes them here.
LiveCallers == {-1}

LiveNext ==
    \/ \E c \in LiveCallers : Start(c)
    \/ \E c \in LiveCallers : Stop(c)
    \/ \E c \in LiveCallers : \E v \in Intervals : SetInterval(c, v)
    \/ Progress

\* The Stepper with set_interval called with any interval, by one thread.
RetuneNext ==
    \/ \E c \in LiveCallers : Start(c)
    \/ \E c \in LiveCallers : Stop(c)
    \/ \E c \in LiveCallers : \E v \in AnyIntervals : SetInterval(c, v)
    \/ Progress
    \/ \E t \in Threads : CallbackRaises(t)

\* ===================================================================== World
MaxW == 4           \* widths tried for World(width, height)
MaxH == 3           \* heights tried
MaxFlips == 2       \* flip_cell calls in one behaviour
MaxGen == 2         \* step calls in one behaviour
MaxSide == 9        \* widths and heights of the worlds the glider runs in
MaxGlide == 4       \* step calls on a world the glider runs in

ALIVE == "ALIVE"    \* Cell.ALIVE
DEAD == "DEAD"      \* Cell.DEAD
PyTrue == "True"
PyFalse == "False"

NoGrid == [y \in {} |-> 0]
NoGen == -1
NotPainting == [pc |-> "idle", at |-> <<0, 0>>, changed |-> NoGen,
                cells |-> NoGen]

WorldInit ==
    /\ width = 0
    /\ height = 0
    /\ cells = NoGrid
    /\ cells_changed = NoGrid
    /\ wstate = "unborn"
    /\ wlast = "none"
    /\ prev_cells = NoGrid
    /\ prev_changed = NoGrid
    /\ flipxy = <<0, 0>>
    /\ gen = 0
    /\ nflips = 0
    /\ next_cells = NoGrid
    /\ paint = NotPainting
    /\ loop = <<>>
    /\ neighbors = <<>>

PyBool(b) == IF b THEN PyTrue ELSE PyFalse

\* A list index as Python resolves it: a negative index counts from the end;
\* -1 stands for IndexError.
IndexError == -1
PyIndex(i, n) ==
    IF i >= 0 /\ i < n THEN i
    ELSE IF i < 0 /\ i >= 0 - n THEN i + n
    ELSE IndexError

\* ------------------------------------------------------- World._fresh_cells
\* The state argument is not used: every entry is Cell.DEAD.
FreshCells(w, h, state) == [y \in 0..(h - 1) |-> [x \in 0..(w - 1) |-> DEAD]]

\* ----------------------------------------------------------- World.__init__
\* The glider's assignments, as [row, column], in program order.
GliderTransposed == << <<2, 0>>, <<2, 1>>, <<2, 2>>, <<1, 2>>, <<0, 1>> >>

Glider == << <<0, 2>>, <<1, 2>>, <<2, 2>>, <<2, 1>>, <<1, 0>> >>

GliderFits(w, h) == \A i \in 1..Len(Glider) :
                       /\ PyIndex(Glider[i][1], h) # IndexError
                       /\ PyIndex(Glider[i][2], w) # IndexError

Seeded(w, h) ==
    [y \in 0..(h - 1) |-> [x \in 0..(w - 1) |->
        IF \E i \in 1..Len(Glider) : Glider[i] = <<y, x>> THEN ALIVE ELSE DEAD]]

NewWorld(w, h) ==
    /\ wstate = "unborn"
    /\ width' = w
    /\ height' = h
    /\ wlast' = "new"
    /\ IF GliderFits(w, h)
       THEN /\ cells' = Seeded(w, h)
            /\ cells_changed' = FreshCells(w, h, PyFalse)
            /\ wstate' = "ok"
       ELSE /\ wstate' = "failed"
            /\ UNCHANGED <<cells, cells_changed>>
    /\ UNCHANGED <<prev_cells, prev_changed, flipxy, gen, nflips, racevars,
                   loopvars>>
    /\ UNCHANGED svars

\* ---------------------------------------------------------- World.flip_cell
FlippedToAlive(v) == ALIVE

Flipped(v) == IF v = ALIVE THEN DEAD ELSE ALIVE

FlipChanged(col, row) ==
    [FreshCells(width, height, PyFalse) EXCEPT ![row][col] = PyTrue]

FlipCell(x, y) ==
    /\ wstate = "ok"
    /\ nflips < MaxFlips
    /\ nflips' = nflips + 1
    /\ flipxy' = <<x, y>>
    /\ prev_cells' = cells
    /\ prev_changed' = cells_changed
    /\ LET row == PyIndex(y, height)
           col == PyIndex(x, width)
       IN IF row = IndexError \/ col = IndexError
          THEN /\ wlast' = "flip_error"
               /\ UNCHANGED <<cells, cells_changed>>
          ELSE /\ wlast' = "flip"
               /\ cells' = [cells EXCEPT ![row][col] = Flipped(cells[row][col])]
               /\ cells_changed' = FlipChanged(col, row)
    /\ UNCHANGED <<width, height, wstate, gen, racevars, loopvars>>
    /\ UNCHANGED svars

\* --------------------------------------------------------------- World.step
\* The list "neighbors" of step, as (x, y) pairs in program order.
NeighborsOnPlane(w, h, x, y) ==
    << <<x - 1, y - 1>>, <<x + 0, y - 1>>, <<x + 1, y - 1>>,
       <<x - 1, y + 0>>, <<x + 1, y + 0>>,
       <<x - 1, y + 1>>, <<x + 0, y + 1>>, <<x + 1, y + 1>> >>

NeighborsOn(w, h, x, y) ==
    << <<(x - 1) % w, (y - 1) % h>>,
       <<(x + 0) % w, (y - 1) % h>>,
       <<(x + 1) % w, (y - 1) % h>>,
       <<(x - 1) % w, (y + 0) % h>>,
       <<(x + 1) % w, (y + 0) % h>>,
       <<(x - 1) % w, (y + 1) % h>>,
       <<(x + 0) % w, (y + 1) % h>>,
       <<(x + 1) % w, (y + 1) % h>> >>

Neighbors(x, y) == NeighborsOn(width, height, x, y)

\* "[self.cells[y][x] for x, y in neighbors].count(Cell.ALIVE)"
LivingNeighbors(x, y) ==
    LET n == Neighbors(x, y)
    IN Cardinality({i \in 1..Len(n) : cells[n[i][2]][n[i][1]] = ALIVE})

\* The value next_cells[y][x] has after the if/elif of the loop body.
NextCellBirthOnTwo(nc, x, y) ==
    LET living_neighbors == LivingNeighbors(x, y)
    IN IF living_neighbors = 3 THEN ALIVE
       ELSE IF living_neighbors = 2 THEN ALIVE
       ELSE nc[y][x]

NextCell(nc, x, y) ==
    LET living_neighbors == LivingNeighbors(x, y)
    IN IF living_neighbors = 3 THEN ALIVE
       ELSE IF living_neighbors = 2 THEN cells[y][x]
       ELSE nc[y][x]

\* "self.cells[y][x] != next_cells[y][x]"
ChangedFlagAlive(nc, x, y) == PyBool(nc[y][x] = ALIVE)

ChangedFlag(nc, x, y) == PyBool(cells[y][x] # nc[y][x])

\* The two loops of step.  Each iteration writes next_cells[y][x] and
\* next_cells_changed[y][x] of its own cell, once, and reads self.cells and
\* the fresh value of next_cells[y][x] only, so the loops compute these grids.
NextCells ==
    [y \in 0..(height - 1) |-> [x \in 0..(width - 1) |->
        NextCell(FreshCells(width, height, DEAD), x, y)]]

NextCellsChanged(nc) ==
    [y \in 0..(height - 1) |-> [x \in 0..(width - 1) |-> ChangedFlag(nc, x, y)]]

\* step(), called at most n times in one behaviour.
StepUpTo(n) ==
    /\ wstate = "ok"
    /\ gen < n
    /\ gen' = gen + 1
    /\ wlast' = "step"
    /\ prev_cells' = cells
    /\ prev_changed' = cells_changed
    /\ LET nc == NextCells
       IN /\ cells_changed' = NextCellsChanged(nc)
          /\ cells' = nc
    /\ UNCHANGED <<width, height, wstate, flipxy, nflips, racevars, loopvars>>
    /\ UNCHANGED svars

Step == StepUpTo(MaxGen)

WorldNext ==
    \/ \E w \in 1..MaxW : \E h \in 1..MaxH : NewWorld(w, h)
    \/ \E x \in 0..(width - 1) : \E y \in 0..(height - 1) : FlipCell(x, y)
    \/ Step

\* ------------------------------------- World.step with a concurrent reader
\* step() on the Stepper's thread, in two steps, as its two assignments to
\* self are, and _paint_world's loop body on the thread that handles a click.
\* The step call that made the grid self.cells_changed, self.cells refers to
\* (0: the constructor).
ChangedGen == gen
CellsGen == IF next_cells = NoGrid THEN gen ELSE gen - 1

\* step() up to and with "self.cells_changed = next_cells_changed"
StepAssignChanged ==
    /\ wstate = "ok"
    /\ next_cells = NoGrid
    /\ gen < MaxGen
    /\ gen' = gen + 1
    /\ wlast' = "stepping"
    /\ prev_cells' = cells
    /\ prev_changed' = cells_changed
    /\ LET nc == NextCells
       IN /\ next_cells' = nc
          /\ cells_changed' = NextCellsChanged(nc)
    /\ UNCHANGED <<width, height, cells, wstate, flipxy, nflips, paint,
                   loopvars>>
    /\ UNCHANGED svars

\* "self.cells = next_cells"; step() returns
StepAssignCells ==
    /\ next_cells # NoGrid
    /\ cells' = next_cells
    /\ next_cells' = NoGrid
    /\ wlast' = "step"
    /\ UNCHANGED <<width, height, cells_changed, wstate, prev_cells,
                   prev_changed, flipxy, gen, nflips, paint, loopvars>>
    /\ UNCHANGED svars

\* "if self.world.cells_changed[y][x]:" at cell (x, y); any value but False
\* is true to Python.
PaintReadChanged(x, y) ==
    /\ wstate = "ok"
    /\ paint.pc = "idle"
    /\ paint' = [pc |-> IF cells_changed[y][x] # PyFalse THEN "fill"
                        ELSE "idle",
                 at |-> <<x, y>>, changed |-> ChangedGen, cells |-> NoGen]
    /\ UNCHANGED <<width, height, cells, cells_changed, wstate, wlast,
                   prev_cells, prev_changed, flipxy, gen, nflips, next_cells,
                   loopvars>>
    /\ UNCHANGED svars

\* "self.grid.fill_cell(x, y, CELL_COLOR[self.world.cells[y][x]])"
PaintReadCells ==
    /\ paint.pc = "fill"
    /\ paint' = [paint EXCEPT !.pc = "idle", !.cells = CellsGen]
    /\ UNCHANGED <<width, height, cells, cells_changed, wstate, wlast,
                   prev_cells, prev_changed, flipxy, gen, nflips, next_cells,
                   loopvars>>
    /\ UNCHANGED svars

RaceNext ==
    \/ \E w \in 1..MaxW : \E h \in 1..MaxH : NewWorld(w, h)
    \/ StepAssignChanged
    \/ StepAssignCells
    \/ \E x \in 0..(width - 1) : \E y \in 0..(height - 1) :
          PaintReadChanged(x, y)
    \/ PaintReadCells

\* The list "neighbors" evaluated once, for any cell of a grid of any size.
StepNeighbors(w, h, x, y) ==
    /\ loop = <<>>
    /\ loop' = <<w, h, x, y>>
    /\ neighbors' = NeighborsOn(w, h, x, y)
    /\ UNCHANGED <<width, height, cells, cells_changed, wstate, wlast,
                   prev_cells, prev_changed, flipxy, gen, nflips, racevars>>
    /\ UNCHANGED svars

NeighborNext ==
    \E w \in 1..MaxSide : \E h \in 1..MaxSide :
        \E x \in 0..(w - 1) : \E y \in 0..(h - 1) : StepNeighbors(w, h, x, y)

\* flip_cell called with any coordinates: for an axis of n cells, the first
\* and the last index, the indices next to them outside the range, and the
\* negative indices -n and -n - 1.
EdgeArgs(n) == {0 - n - 1, 0 - n, -1, 0, n - 1, n}

EdgeNext ==
    \/ \E w \in 1..MaxW : \E h \in 1..MaxH : NewWorld(w, h)
    \/ \E x \in EdgeArgs(width) : \E y \in EdgeArgs(height) : FlipCell(x, y)

\* A freshly constructed World of at least 5 x 5 cells that is only stepped.
GliderStep == StepUpTo(MaxGlide)

GliderNext ==
    \/ \E w \in 5..MaxSide : \E h \in 5..MaxSide : NewWorld(w, h)
    \/ GliderStep

\* ------------------------------------------------------------ specifications
\* The Stepper alone: threads calling it and its Timer threads.
Init == StepperInit /\ WorldInit

Spec == Init /\ [][StepperNext]_vars

\* The Stepper with a callback that returns normally, under fair scheduling:
\* a thread that can take a step, or a Timer whose wait can end, is not held
\* up for ever.  The public methods are called or not, as the caller likes.
LiveSpec == Init /\ [][LiveNext]_vars /\ WF_vars(Progress)

\* The Stepper retuned to intervals of any sign.
RetuneSpec == Init /\ [][RetuneNext]_vars

\* The World alone, called from one thread.
WorldSpec == Init /\ [][WorldNext]_vars

\* The World stepped on one thread and painted on another.
RaceSpec == Init /\ [][RaceNext]_vars

\* step's neighbour list alone, as a function of the size and the cell.
NeighborSpec == Init /\ [][NeighborNext]_vars

\* The World with flip_cell called inside and outside the grid.
EdgeSpec == Init /\ [][EdgeNext]_vars

\* The World constructed with its glider and stepped, with no other call.
GliderSpec == Init /\ [][GliderNext]_vars

\* ==================================================== properties: Stepper
InCallback(t) == pc[t] = "in_cb"

AllIdle == \A c \in Callers : pc[c] = "idle"

LastOp == IF last2 = <<>> THEN "none" ELSE last2[Len(last2)]

NoneFired == \A i \in TimerIds : tstate[i] # "fired"

\* No thread is inside the Stepper and no Timer is between creation and start.
Quiescent ==
    /\ AllIdle
    /\ \A i \in TimerIds : pc[i] \in {"none", "done"} /\ tstate[i] # "created"

\* C1: two callback invocations never overlap: at most one thread is inside
\* the callback at any time.
C1_NoOverlap ==
    \A t, u \in Threads : InCallback(t) /\ InCallback(u) => t = u

\* C1 witness: one thread is inside the callback while another has reached
\* _run and waits for the callback lock.
C1_Witness ==
    \E t, u \in Threads : t # u /\ InCallback(t) /\ pc[u] = "run"

\* C2: once stop() has returned and no start() or set_interval() has been
\* called after it, no scheduled invocation is pending.
C2_StopPreventsFiring ==
    (LastOp = "stop" /\ AllIdle) => \A i \in TimerIds : ~Pending(i)

C4_FailureKeepsScheduling ==
    (lastres = "raised" /\ running /\ Quiescent)
        => \E i \in TimerIds : Pending(i)

\* C5: start() on a Running Stepper is a no-op: it calls no callback, creates
\* no Timer and leaves running, the interval, the pending Timer, the locks
\* and every thread's position unchanged.
C5_StartIdempotent ==
    [][(nops' = nops + 1 /\ LastOp' = "start" /\ running)
          => UNCHANGED <<running, interval, timer, tstate, tdelay, ncalls,
                         control_lock, cb_lock, pc, op>>]_vars

\* C5 witness: two start() calls in a row have returned, the second on a
\* Running Stepper, and only the first one's invocation has happened.
C5_Witness ==
    /\ nops = 2 /\ last2 = <<"start", "start">> /\ AllIdle
    /\ running /\ ncalls = 1 /\ \E i \in TimerIds : Pending(i)

C7_PlainSetInterval ==
    [][(nops' = nops + 1 /\ LastOp' = "set"
            /\ (~running \/ interval <= Threshold))
          => /\ interval' = lastarg'
             /\ UNCHANGED <<running, timer, tstate, tdelay, ncalls,
                            control_lock, cb_lock, pc, op>>]_vars

\* C7 witness: set_interval(1) has returned on a Running Stepper whose stored
\* interval was 0.5; the pending Timer still has the delay 0.5.
C7_Witness ==
    /\ LastOp = "set" /\ lastarg = DefaultInterval /\ AllIdle
    /\ running /\ interval = DefaultInterval
    /\ \E i \in TimerIds : Pending(i) /\ tdelay[i] = Threshold

\* C8: while a callback invocation is in progress, stop() and set_interval()
\* can take the control lock and return before the callback returns: the
\* control lock is not held by a thread that is inside the callback or waits
\* for the callback lock.
C8_ControlStaysResponsive ==
    (\E t \in Threads : InCallback(t))
        => ~(control_lock # NoLock /\ pc[control_lock] \in {"in_cb", "run"})

\* C16: the stored interval is positive in every state, and a set_interval
\* call with an argument that is not positive leaves the stored interval,
\* running and the pending Timer as they were.
C16_IntervalPositive ==
    [][/\ interval' > 0
       /\ (nops' = nops + 1 /\ LastOp' = "set" /\ lastarg' <= 0)
              => UNCHANGED <<interval, running, timer, tstate>>]_vars

\* C19: at most one Timer is waiting to fire at any time.
C19_OnePendingTimer ==
    Cardinality({i \in TimerIds : Pending(i)}) <= 1

\* Every Timer of the model has been created: _run_again can go no further.
OutOfTimers == \A i \in TimerIds : tstate[i] # "unused"

\* C20: with a callback that returns normally, every call of a public method
\* returns (no deadlock), and whenever the Stepper is Running a callback
\* invocation is in progress then or later, so that every invocation is
\* followed by another one, unless stop() is called; both as far as the
\* Timers of the model reach.
C20_NoDeadlockAndProgress ==
    /\ \A c \in LiveCallers :
          (pc[c] # "idle") ~> (pc[c] = "idle" \/ OutOfTimers)
    /\ running ~> ((\E t \in Threads : InCallback(t)) \/ ~running
                     \/ OutOfTimers)

\* C20 witness: the Stepper is Running after a stop() and a later start(),
\* a Timer's thread is inside the third or a later invocation while the start
\* call waits for the callback lock, and a Timer is left for the next one.
C20_Witness ==
    /\ running /\ ncalls >= 3 /\ lastres = "ok" /\ ~OutOfTimers
    /\ last2 = <<"stop", "start">>
    /\ \E i \in TimerIds : pc[i] = "in_cb"
    /\ \E c \in Callers : pc[c] = "run" /\ control_lock = c

\* ====================================================== properties: World
Xs == 0..(width - 1)
Ys == 0..(height - 1)

\* The 8 offsets to a cell's neighbours.
Offsets == ({-1, 0, 1} \X {-1, 0, 1}) \ {<<0, 0>>}

\* The living cells among the 8 toroidal neighbours of (x, y) in grid g.
LivingAround(g, x, y) ==
    Cardinality({d \in Offsets :
                    g[(y + d[2]) % height][(x + d[1]) % width] = ALIVE})

\* Canonical B3/S23: birth on 3, survival on 2 or 3, death otherwise.
B3S23(was, n) ==
    IF (was = DEAD /\ n = 3) \/ (was = ALIVE /\ n \in {2, 3})
    THEN ALIVE ELSE DEAD

AfterStep == wstate = "ok" /\ wlast = "step"

\* C9: after step(), every cell follows the Life rule on the grid before the
\* step: 3 living neighbours give Alive, 2 give the cell's former state, any
\* other count gives Dead; the result is canonical B3/S23.
C9_LifeRule ==
    AfterStep =>
        \A y \in Ys : \A x \in Xs :
            LET n == LivingAround(prev_cells, x, y)
                was == prev_cells[y][x]
                now == cells[y][x]
            IN /\ n = 3 => now = ALIVE
               /\ n = 2 => now = was
               /\ n \notin {2, 3} => now = DEAD
               /\ now = B3S23(was, n)

\* C9 witness: a step in which a cell was born on 3, a living cell survived
\* on 2, a dead cell stayed dead on 2 and a living cell died with at most 1.
C9_Witness ==
    /\ AfterStep
    /\ \E y \in Ys : \E x \in Xs :
          /\ prev_cells[y][x] = DEAD /\ cells[y][x] = ALIVE
          /\ LivingAround(prev_cells, x, y) = 3
    /\ \E y \in Ys : \E x \in Xs :
          /\ prev_cells[y][x] = ALIVE /\ cells[y][x] = ALIVE
          /\ LivingAround(prev_cells, x, y) = 2
    /\ \E y \in Ys : \E x \in Xs :
          /\ prev_cells[y][x] = DEAD /\ cells[y][x] = DEAD
          /\ LivingAround(prev_cells, x, y) = 2
    /\ \E y \in Ys : \E x \in Xs :
          /\ prev_cells[y][x] = ALIVE /\ cells[y][x] = DEAD
          /\ LivingAround(prev_cells, x, y) <= 1

\* C10: after step(), cells_changed[y][x] is true exactly where cells[y][x]
\* differs from the cell's value in the generation before.
C10_ChangedIffDiffers ==
    AfterStep =>
        \A y \in Ys : \A x \in Xs :
            /\ cells_changed[y][x] \in {PyTrue, PyFalse}
            /\ cells_changed[y][x] = PyTrue <=> cells[y][x] # prev_cells[y][x]

\* C10 witness: a step that changed some cells and left others, a living one
\* among them, as they were.
C10_Witness ==
    /\ AfterStep
    /\ \E y \in Ys : \E x \in Xs :
          cells[y][x] # prev_cells[y][x] /\ cells_changed[y][x] = PyTrue
    /\ \E y \in Ys : \E x \in Xs :
          /\ cells[y][x] = ALIVE /\ prev_cells[y][x] = ALIVE
          /\ cells_changed[y][x] = PyFalse

\* The glider as the cells (x, y) it occupies after construction.
GliderCells == {<<2, 0>>, <<2, 1>>, <<2, 2>>, <<1, 2>>, <<0, 1>>}

\* Grid g holds living cells at exactly the cells of set c moved by (dx, dy)
\* on the torus.
AliveExactlyAt(g, c, dx, dy) ==
    \A y \in Ys : \A x \in Xs :
        g[y][x] = ALIVE <=>
            \E p \in c : x = (p[1] + dx) % width /\ y = (p[2] + dy) % height

\* C11: in a World of at least 5 x 5 cells, fresh from its constructor, four
\* step() calls give the glider moved by one cell in x and one cell in y,
\* modulo width and height, and every other cell Dead.
C11_GliderPeriod ==
    (wstate = "ok" /\ nflips = 0 /\ gen = 4
         /\ width >= 5 /\ height >= 5)
        => AliveExactlyAt(cells, GliderCells, 1, 1)

\* C11 witness: the fourth step has been made on a 5 x 5 World, five cells
\* live, and the grid differs from the one the constructor made.
C11_Witness ==
    /\ wstate = "ok" /\ nflips = 0 /\ gen = 4 /\ wlast = "step"
    /\ width = 5 /\ height = 5
    /\ ~AliveExactlyAt(cells, GliderCells, 0, 0)
    /\ Cardinality({p \in Xs \X Ys : cells[p[2]][p[1]] = ALIVE}) = 5

\* The step is a flip_cell call that succeeds with the arguments of the
\* successful flip_cell call right before it.
SecondFlip ==
    /\ wlast = "flip" /\ wlast' = "flip"
    /\ nflips' = nflips + 1
    /\ flipxy' = flipxy

\* C12 as claimed: flip_cell(x, y) twice in a row, with (x, y) in range, gives
\* back the cell grid and the change set of before the first flip.
C12_DoubleFlipRestoresBoth ==
    [][SecondFlip => cells' = prev_cells /\ cells_changed' = prev_changed]_vars

\* C12 as amended: flip_cell(x, y) twice in a row, with (x, y) in range, gives
\* back the cell grid of before the first flip; the change set is not given
\* back: after the second flip it is what it was after the first.
C12_DoubleFlipRestoresCells ==
    [][SecondFlip => cells' = prev_cells /\ cells_changed' = cells_changed]_vars

\* C12 witness: the constructor and two flips of one cell: the grid is the
\* constructor's again, after a first flip that changed it, and the change
\* set is not the constructor's.
C12_Witness ==
    /\ wstate = "ok" /\ wlast = "flip" /\ nflips = 2 /\ gen = 0
    /\ cells = Seeded(width, height) /\ prev_cells # cells
    /\ cells_changed = prev_changed
    /\ cells_changed # FreshCells(width, height, PyFalse)

\* C13: after flip_cell(x, y) with (x, y) in range, every entry of the change
\* set is a boolean, the entry at (x, y) is true and every other entry is
\* false, and the grid differs from the grid before the call at (x, y) only.
C13_OneTrueEntry ==
    (wstate = "ok" /\ wlast = "flip") =>
        \A y \in Ys : \A x \in Xs :
            /\ cells_changed[y][x] \in {PyTrue, PyFalse}
            /\ cells_changed[y][x] = PyTrue <=> <<x, y>> = flipxy
            /\ cells[y][x] # prev_cells[y][x] <=> <<x, y>> = flipxy

\* C14: World(width, height) with width >= 1 and height >= 1 succeeds and
\* gives a grid of height rows of width cells whose living cells are exactly
\* (2,0), (2,1), (2,2), (1,2), (0,1), as (x, y).
C14_ConstructorSeedsGlider ==
    (wlast = "new" /\ width >= 1 /\ height >= 1) =>
        /\ wstate = "ok"
        /\ DOMAIN cells = Ys
        /\ \A y \in Ys : DOMAIN cells[y] = Xs
        /\ AliveExactlyAt(cells, GliderCells, 0, 0)

InRange(xy) == xy[1] \in Xs /\ xy[2] \in Ys

\* C15: flip_cell(x, y) with x outside 0..width-1 or y outside 0..height-1,
\* negative values included, raises an error and leaves cells and
\* cells_changed as they were.
C15_OutOfRangeRejected ==
    (wstate = "ok" /\ wlast \in {"flip", "flip_error"} /\ ~InRange(flipxy))
        => /\ wlast = "flip_error"
           /\ cells = prev_cells
           /\ cells_changed = prev_changed

\* The list n holds 8 positions inside a grid of w x h cells.
EightInRange(n, w, h) ==
    /\ Len(n) = 8
    /\ \A i \in 1..Len(n) : n[i][1] \in 0..(w - 1) /\ n[i][2] \in 0..(h - 1)

\* The positions of list n differ from one another and from (x, y).
DistinctNotSelf(n, x, y) ==
    /\ \A i, j \in 1..Len(n) : n[i] = n[j] => i = j
    /\ \A i \in 1..Len(n) : n[i] # <<x, y>>

C18_AtomicSwap ==
    (paint.changed # NoGen /\ paint.cells # NoGen)
        => paint.changed = paint.cells

====
